---- MODULE Spec2Model ----
(***************************************************************************)
(* A model of internal/exec/util/file.go: the fetch plan builder           *)
(* (PrepareFetches), the content materializer (PerformFetch), the link     *)
(* materializer (WriteLink), ownership resolution (ResolveNodeUidAndGid,   *)
(* SetPermissions) and the overwrite purge (DeletePathOnOverwrite), over a *)
(* small POSIX filesystem of directory entries and inodes.                 *)
(***************************************************************************)
EXTENDS Integers, Sequences, FiniteSets, TLC

\* ------------------------------------------------------------------ bounds
MaxLen == 3
MaxIno == 8
MaxTmp == 2
MaxAppend == 2

\* --------------------------------------------------------------- constants
DefaultDirectoryPermissions == 493
DefaultFilePermissions == 420
TempFilePermissions == 384

\* ---------------------------------------------------------------- universe
Procs == {1, 2}
Inos == 1..MaxIno
TmpNames == {<<"tmp", k>> : k \in 1..MaxTmp}
FixedPaths == {<<"dir", 0>>, <<"dest", 0>>, <<"child", 0>>, <<"other", 0>>, <<"missing", 0>>}
Paths == FixedPaths \cup TmpNames
DirPath == <<"dir", 0>>
DestPath == <<"dest", 0>>
ChildPath == <<"child", 0>>
OtherPath == <<"other", 0>>
MissingPath == <<"missing", 0>>
NoPath == <<"none", 0>>

Nil == <<>>
Ptr(v) == <<v>>
IsNil(p) == p = <<>>
Deref(p) == p[1]

FreeInode == [type |-> "free", data |-> <<>>, mode |-> 0, uid |-> 0, gid |-> 0, target |-> NoPath]

VARIABLES
    dent,   \* directory entries: the inode each path names, 0 when absent
    inode,  \* inodes: type, bytes, mode, owner, group, link target
    pc,     \* where each caller stands in its call
    loc,    \* each call's locals: the FetchOp, the temp file, descriptors, err
    snap,   \* the filesystem as each call found it
    hist,   \* whether the path was just purged; whose rename came last
    ret,    \* the node being materialized and the last ownership call's outcome
    plan    \* the declared file and the fetch plan built for it
vars == <<dent, inode, pc, loc, snap, hist, ret, plan>>

\* ------------------------------------------------------------- filesystem
\* an inode stays allocated while a directory entry or an open descriptor names it
Referenced(i, d, l) ==
    \/ \E n \in Paths : d[n] = i
    \/ \E p \in Procs : l[p].tmpFd = i \/ l[p].targetFd = i

Reclaim(d, ino, l) == [i \in Inos |-> IF Referenced(i, d, l) THEN ino[i] ELSE FreeInode]

AllocIno(d, l) ==
    CHOOSE i \in Inos : /\ ~Referenced(i, d, l)
                        /\ \A j \in Inos : ~Referenced(j, d, l) => i <= j

Exists(d, n) == d[n] # 0
TypeOf(d, ino, n) == IF d[n] = 0 THEN "absent" ELSE ino[d[n]].type
DataOf(d, ino, n) == IF d[n] = 0 THEN <<>> ELSE ino[d[n]].data
\* what a stat that follows symbolic links resolves a path to
Follow(d, ino, n) == IF TypeOf(d, ino, n) = "symlink" THEN ino[d[n]].target ELSE n

NewInode(t, m) == [type |-> t, data |-> <<>>, mode |-> m, uid |-> 0, gid |-> 0, target |-> NoPath]

\* ------------------------------------------------ declared input (types.*)
NoOwner == [ID |-> Nil, Name |-> Nil]
MkNode(path, user, group, overwrite) ==
    [Path |-> path, User |-> user, Group |-> group, Overwrite |-> overwrite]
DestNode == MkNode(DestPath, NoOwner, NoOwner, Nil)

\* verification strings, as the characters of "<function>-<hex sum>"
VerA == <<"sha512", "-", "0", "7">>
VerB == <<"sha512", "-", "1", "3">>
VerUnknownAlg == <<"md5", "-", "0", "7">>
VerBadHex == <<"sha512", "-", "z", "7">>
VerOddHex == <<"sha512", "-", "0">>
VerNoDash == <<"sha512">>

SrcA == "http://h/a"
SrcB == "http://h/b"
SrcBad == "%zz"

MkContents(src, comp, ver) ==
    [Source |-> src, Compression |-> comp, Verification |-> [Hash |-> ver]]

\* ----------------------------------------------------- collaborators
NoURL == [Scheme |-> "", Host |-> "", Path |-> ""]
\* net/url.Parse on the sources the model draws
ParseURL(s) ==
    IF s = SrcA THEN [err |-> "nil", url |-> [Scheme |-> "http", Host |-> "h", Path |-> "/a"]]
    ELSE IF s = SrcB THEN [err |-> "nil", url |-> [Scheme |-> "http", Host |-> "h", Path |-> "/b"]]
    ELSE [err |-> "ErrURLParse", url |-> NoURL]

\* util.HashParts: split "<function>-<sum>" at the first dash
HashParts(v) ==
    IF Len(v.Hash[1]) >= 2 /\ v.Hash[1][2] = "-"
    THEN [err |-> "nil", function |-> v.Hash[1][1], sum |-> SubSeq(v.Hash[1], 3, Len(v.Hash[1]))]
    ELSE [err |-> "ErrHashMalformed", function |-> "", sum |-> <<>>]

\* util.GetHasher: no hasher without a verification string, sha512 otherwise
GetHasher(v) ==
    IF IsNil(v.Hash) THEN [err |-> "nil", hasher |-> Nil]
    ELSE IF HashParts(v).err # "nil" THEN [err |-> HashParts(v).err, hasher |-> Nil]
    ELSE IF HashParts(v).function = "sha512" THEN [err |-> "nil", hasher |-> Ptr("sha512")]
    ELSE [err |-> "ErrHashUnrecognized", hasher |-> Nil]

HexVal(c) ==
    CASE c = "0" -> 0 [] c = "1" -> 1 [] c = "3" -> 3 [] c = "7" -> 7 [] OTHER -> -1

\* encoding/hex.DecodeString: two digits a byte; odd length or a non-digit fails
RECURSIVE HexDecode(_)
HexDecode(s) ==
    IF s = <<>> THEN [err |-> "nil", bytes |-> <<>>]
    ELSE IF Len(s) = 1 \/ HexVal(s[1]) < 0 \/ HexVal(s[2]) < 0
         THEN [err |-> "ErrHex", bytes |-> <<>>]
    ELSE LET rest == HexDecode(SubSeq(s, 3, Len(s)))
         IN IF rest.err # "nil" THEN rest
            ELSE [err |-> "nil", bytes |-> <<16 * HexVal(s[1]) + HexVal(s[2])>> \o rest.bytes]

\* the bytes the Fetcher retrieves for a URL
Served(u) == IF u.Path = "/a" THEN <<1, 2>> ELSE <<3, 4>>

\* the digest the Fetcher's accumulator computes over the bytes it wrote
RECURSIVE Digest(_)
Digest(s) ==
    IF s = <<>> THEN 0
    ELSE (5 * Digest(SubSeq(s, 1, Len(s) - 1)) + s[Len(s)]) % 251

\* Fetcher.Fetch's result once it stops writing: a transport failure at any point,
\* else (everything written) the comparison of the digest with ExpectedSum
FetcherResult(f, written, fail) ==
    IF fail THEN "ErrFetch"
    ELSE IF ~IsNil(f.FetchOptions.Hash) /\ <<Digest(written)>> # f.FetchOptions.ExpectedSum
         THEN "ErrHashMismatch"
    ELSE "nil"

\* ------------------------------------------------------------ FetchOp
NoOp == [Hash |-> Nil, Url |-> NoURL,
         FetchOptions |-> [Hash |-> Nil, Compression |-> "", ExpectedSum |-> <<>>],
         Append |-> FALSE, Node |-> DestNode]

newFetchOp(node, contents) ==
    LET uri == ParseURL(Deref(contents.Source))
        h == GetHasher(contents.Verification)
        sum == IF IsNil(h.hasher) THEN [err |-> "nil", bytes |-> <<>>]
               ELSE HexDecode(HashParts(contents.Verification).sum)
        compression == IF IsNil(contents.Compression) THEN "" ELSE Deref(contents.Compression)
    IN IF uri.err # "nil" THEN [err |-> uri.err, op |-> NoOp]
       ELSE IF h.err # "nil" THEN [err |-> h.err, op |-> NoOp]
       ELSE IF sum.err # "nil" THEN [err |-> sum.err, op |-> NoOp]
       ELSE [err |-> "nil",
             op |-> [Hash |-> h.hasher, Url |-> uri.url,
                     FetchOptions |-> [Hash |-> h.hasher, Compression |-> compression,
                                       ExpectedSum |-> sum.bytes],
                     Append |-> FALSE, Node |-> node]]

RECURSIVE AppendOps(_, _)
AppendOps(node, appendees) ==
    IF appendees = <<>> THEN [err |-> "nil", ops |-> <<>>]
    ELSE LET r == newFetchOp(node, Head(appendees))
             rest == AppendOps(node, Tail(appendees))
         IN IF r.err # "nil" THEN [err |-> r.err, ops |-> <<>>]
            ELSE IF rest.err # "nil" THEN rest
            ELSE [err |-> "nil", ops |-> <<[r.op EXCEPT !.Append = TRUE]>> \o rest.ops]

\* a builder that puts the primary operation after the append fragments
PrepareFetches_AppendFirst(f) ==
    LET base == IF IsNil(f.Contents.Source) THEN [err |-> "nil", ops |-> <<>>]
                ELSE LET r == newFetchOp(f.Node, f.Contents)
                     IN [err |-> r.err, ops |-> IF r.err = "nil" THEN <<r.op>> ELSE <<>>]
        rest == AppendOps(f.Node, f.Append)
    IN IF base.err # "nil" THEN [err |-> base.err, ops |-> <<>>]
       ELSE IF rest.err # "nil" THEN [err |-> rest.err, ops |-> <<>>]
       ELSE [err |-> "nil", ops |-> rest.ops \o base.ops]

\* lines 104-125
PrepareFetches(f) ==
    LET base == IF IsNil(f.Contents.Source) THEN [err |-> "nil", ops |-> <<>>]
                ELSE LET r == newFetchOp(f.Node, f.Contents)
                     IN [err |-> r.err, ops |-> IF r.err = "nil" THEN <<r.op>> ELSE <<>>]
        rest == AppendOps(f.Node, f.Append)
    IN IF base.err # "nil" THEN [err |-> base.err, ops |-> <<>>]
       ELSE IF rest.err # "nil" THEN [err |-> rest.err, ops |-> <<>>]
       ELSE [err |-> "nil", ops |-> base.ops \o rest.ops]

\* ------------------------------------------------------- process state
NoLoc == [call |-> "none", op |-> NoOp, node |-> DestNode, path |-> NoPath,
          tmpName |-> NoPath, tmpFd |-> 0, targetFd |-> 0, pos |-> 0,
          deferRemove |-> FALSE, err |-> "nil", fetchErr |-> "none", renamed |-> FALSE]
NoSnap == [dent |-> [n \in Paths |-> 0], inode |-> [i \in Inos |-> FreeInode]]
NoPlan == [state |-> "none"]

NoStat == [exists |-> FALSE, uid |-> 0, gid |-> 0]
NoRes == [uid |-> 0, gid |-> 0, err |-> "nil", looked |-> {}]
NoRet == [call |-> "none", node |-> DestNode, hard |-> FALSE, before |-> NoStat, entry |-> 0,
          resolved |-> FALSE, du |-> 0, dg |-> 0, res |-> NoRes, err |-> "nil"]

\* filepath.Dir: every path of the model lies in the one directory
Dir(path) == DirPath

\* MkdirForFile: os.MkdirAll of the parent, a no-op when it is there
MkdirForFile(d, ino, l, path) ==
    IF Exists(d, Dir(path)) THEN [dent |-> d, inode |-> ino]
    ELSE LET i == AllocIno(d, l)
         IN [dent |-> [d EXCEPT ![Dir(path)] = i],
             inode |-> [ino EXCEPT ![i] = NewInode("dir", DefaultDirectoryPermissions)]]

\* the way out of PerformFetch with error e: the deferred calls run next
Exit(p, e) ==
    /\ loc' = [loc EXCEPT ![p].err = e]
    /\ pc' = [pc EXCEPT ![p] = "pf_exit"]

\* the operations PerformFetch is run on: what newFetchOp builds for Node dest
GoodContents ==
    {MkContents(Ptr(s), Nil, v) : s \in {SrcA, SrcB}, v \in {Nil, Ptr(VerA), Ptr(VerB)}}
FetchOps ==
    {[newFetchOp(DestNode, c).op EXCEPT !.Append = a] : c \in GoodContents, a \in BOOLEAN}

\* lines 176-181: the call, and MkdirForFile
PerformFetch(p, f, fail) ==
    /\ pc[p] = "idle"
    /\ Len(DataOf(dent, inode, f.Node.Path)) + Len(Served(f.Url)) <= MaxLen \/ ~f.Append
    /\ snap' = [snap EXCEPT ![p] = [dent |-> dent, inode |-> inode]]
    /\ LET l0 == [NoLoc EXCEPT !.call = "PerformFetch", !.op = f, !.path = f.Node.Path]
           fs == MkdirForFile(dent, inode, loc, f.Node.Path)
       IN IF fail
          THEN /\ loc' = [loc EXCEPT ![p] = [l0 EXCEPT !.err = "EIO"]]
               /\ pc' = [pc EXCEPT ![p] = "pf_exit"]
               /\ UNCHANGED <<dent, inode>>
          ELSE /\ loc' = [loc EXCEPT ![p] = l0]
               /\ pc' = [pc EXCEPT ![p] = "pf_temp"]
               /\ dent' = fs.dent
               /\ inode' = fs.inode
    /\ UNCHANGED <<hist, ret, plan>>

\* a TempFile that opens without O_EXCL: a name in use is opened as it is
TempFile_NoExcl(p, fail) ==
    /\ pc[p] = "pf_temp"
    /\ IF fail
       THEN /\ Exit(p, "EIO")
            /\ UNCHANGED <<dent, inode>>
       ELSE \E name \in TmpNames :
              LET i == IF dent[name] = 0 THEN AllocIno(dent, loc) ELSE dent[name]
              IN /\ dent' = [dent EXCEPT ![name] = i]
                 /\ inode' = IF dent[name] = 0
                              THEN [inode EXCEPT ![i] = NewInode("reg", TempFilePermissions)]
                              ELSE inode
                 /\ loc' = [loc EXCEPT ![p].tmpName = name, ![p].tmpFd = i]
                 /\ pc' = [pc EXCEPT ![p] = "pf_chmod"]
    /\ UNCHANGED <<snap, hist, ret, plan>>

\* lines 184-188: ioutil.TempFile in the destination's directory (O_EXCL on a
\* name not in use, mode 0600); the descriptor's Close is deferred
TempFile(p, fail) ==
    /\ pc[p] = "pf_temp"
    /\ LET free == {n \in TmpNames : dent[n] = 0}
       IN IF fail \/ free = {}
          THEN /\ Exit(p, IF fail THEN "EIO" ELSE "EEXIST")
               /\ UNCHANGED <<dent, inode>>
          ELSE \E name \in free :
                 LET i == AllocIno(dent, loc)
                 IN /\ dent' = [dent EXCEPT ![name] = i]
                    /\ inode' = [inode EXCEPT ![i] = NewInode("reg", TempFilePermissions)]
                    /\ loc' = [loc EXCEPT ![p].tmpName = name, ![p].tmpFd = i]
                    /\ pc' = [pc EXCEPT ![p] = "pf_chmod"]
    /\ UNCHANGED <<snap, hist, ret, plan>>

\* lines 191-197: tmp.Chmod(0644), and only then the deferred os.Remove
TmpChmod(p, fail) ==
    /\ pc[p] = "pf_chmod"
    /\ IF fail
       THEN /\ Exit(p, "EIO")
            /\ UNCHANGED inode
       ELSE /\ inode' = [inode EXCEPT ![loc[p].tmpFd].mode = DefaultFilePermissions]
            /\ loc' = [loc EXCEPT ![p].deferRemove = TRUE]
            /\ pc' = [pc EXCEPT ![p] = "pf_fetch"]
    /\ UNCHANGED <<dent, snap, hist, ret, plan>>

\* line 199, inside the Fetcher: the next retrieved byte goes to the sink
FetcherWrite(p) ==
    /\ pc[p] = "pf_fetch"
    /\ LET i == loc[p].tmpFd
           n == Len(inode[i].data)
       IN /\ n < Len(Served(loc[p].op.Url))
          /\ inode' = [inode EXCEPT ![i].data = @ \o <<Served(loc[p].op.Url)[n + 1]>>]
          /\ loc' = [loc EXCEPT ![p].pos = n + 1]
    /\ UNCHANGED <<dent, pc, snap, hist, ret, plan>>

\* a PerformFetch that installs whatever the Fetcher left in the temp file
AfterFetch_IgnoreErr(f, err) ==
    IF f.Append THEN "pf_lstat" ELSE "pf_rename"

\* a PerformFetch that checks the Fetcher's error only before a rename
AfterFetch_AppendAnyway(f, err) ==
    IF f.Append THEN "pf_lstat" ELSE IF err # "nil" THEN "pf_exit" ELSE "pf_rename"

\* where PerformFetch goes once the Fetcher returned err (lines 200-205, 233)
AfterFetch(f, err) ==
    IF err # "nil" THEN "pf_exit" ELSE IF f.Append THEN "pf_lstat" ELSE "pf_rename"

\* lines 199-205: the Fetcher returns; an error is logged and returned
FetchReturn(p, fail) ==
    /\ pc[p] = "pf_fetch"
    /\ fail \/ inode[loc[p].tmpFd].data = Served(loc[p].op.Url)
    /\ LET err == FetcherResult(loc[p].op, inode[loc[p].tmpFd].data, fail)
       IN /\ loc' = [loc EXCEPT ![p].err = err, ![p].fetchErr = err]
          /\ pc' = [pc EXCEPT ![p] = AfterFetch(loc[p].op, err)]
    /\ UNCHANGED <<dent, inode, snap, hist, ret, plan>>

\* the result of the type check on the Lstat'ed destination (lines 208-218)
AppendTypeCheck(t) ==
    IF t = "absent" \/ t = "reg" THEN "nil" ELSE "ErrNotRegular"

\* lines 207-218: os.Lstat of the destination, which must be absent or regular
AppendLstat(p, fail) ==
    /\ pc[p] = "pf_lstat"
    /\ LET err == IF fail THEN "EIO" ELSE AppendTypeCheck(TypeOf(dent, inode, loc[p].path))
       IN IF err # "nil" THEN Exit(p, err)
          ELSE /\ pc' = [pc EXCEPT ![p] = "pf_open"]
               /\ UNCHANGED loc
    /\ UNCHANGED <<dent, inode, snap, hist, ret, plan>>

\* lines 221-225: os.OpenFile(path, O_WRONLY|O_APPEND|O_CREATE, 0644)
AppendOpen(p, fail) ==
    /\ pc[p] = "pf_open"
    /\ LET t == Follow(dent, inode, loc[p].path)
       IN IF fail \/ TypeOf(dent, inode, t) = "dir"
          THEN /\ Exit(p, IF fail THEN "EIO" ELSE "EISDIR")
               /\ UNCHANGED <<dent, inode>>
          ELSE IF Exists(dent, t)
          THEN /\ loc' = [loc EXCEPT ![p].targetFd = dent[t]]
               /\ pc' = [pc EXCEPT ![p] = "pf_seek"]
               /\ UNCHANGED <<dent, inode>>
          ELSE LET i == AllocIno(dent, loc)
               IN /\ dent' = [dent EXCEPT ![t] = i]
                  /\ inode' = [inode EXCEPT ![i] = NewInode("reg", DefaultFilePermissions)]
                  /\ loc' = [loc EXCEPT ![p].targetFd = i]
                  /\ pc' = [pc EXCEPT ![p] = "pf_seek"]
    /\ UNCHANGED <<snap, hist, ret, plan>>

\* a PerformFetch that copies from wherever the Fetcher left the offset
SeekStart_NoRewind(pos) == pos

\* the offset tmp.Seek(0, os.SEEK_SET) leaves the temp file at
SeekStart(pos) == 0

\* lines 227-229: rewind the temp file
AppendSeek(p, fail) ==
    /\ pc[p] = "pf_seek"
    /\ IF fail THEN Exit(p, "EIO")
       ELSE /\ loc' = [loc EXCEPT ![p].pos = SeekStart(loc[p].pos)]
            /\ pc' = [pc EXCEPT ![p] = "pf_copy"]
    /\ UNCHANGED <<dent, inode, snap, hist, ret, plan>>

\* line 230, inside io.Copy: one read from the temp file at its offset, one
\* write to the destination's end
CopyWrite(p) ==
    /\ pc[p] = "pf_copy"
    /\ LET src == inode[loc[p].tmpFd].data
           k == loc[p].pos
       IN /\ k < Len(src)
          /\ inode' = [inode EXCEPT ![loc[p].targetFd].data = @ \o <<src[k + 1]>>]
          /\ loc' = [loc EXCEPT ![p].pos = k + 1]
    /\ UNCHANGED <<dent, pc, snap, hist, ret, plan>>

\* lines 230-232, 239: io.Copy returns, at end of file or on a failed read or write
CopyReturn(p, fail) ==
    /\ pc[p] = "pf_copy"
    /\ fail \/ loc[p].pos = Len(inode[loc[p].tmpFd].data)
    /\ Exit(p, IF fail THEN "EIO" ELSE "nil")
    /\ UNCHANGED <<dent, inode, snap, hist, ret, plan>>

\* the error of os.Rename(tmp, path) on the filesystem as it is
RenameErr(d, ino, from, to) ==
    IF ~Exists(d, from) THEN "ENOENT"
    ELSE IF TypeOf(d, ino, to) = "dir" THEN "EISDIR"
    ELSE "nil"

\* lines 234-236, 239: os.Rename of the temp file onto the destination
Rename(p, fail) ==
    /\ pc[p] = "pf_rename"
    /\ LET err == IF fail THEN "EIO" ELSE RenameErr(dent, inode, loc[p].tmpName, loc[p].path)
           d1 == [dent EXCEPT ![loc[p].path] = dent[loc[p].tmpName], ![loc[p].tmpName] = 0]
       IN IF err # "nil"
          THEN /\ Exit(p, err)
               /\ UNCHANGED <<dent, inode, hist>>
          ELSE /\ dent' = d1
               /\ inode' = Reclaim(d1, inode, loc)
               /\ loc' = [loc EXCEPT ![p].renamed = TRUE]
               /\ pc' = [pc EXCEPT ![p] = "pf_exit"]
               /\ hist' = [hist EXCEPT !.lastRename = p]
    /\ UNCHANGED <<snap, ret, plan>>

\* whether the deferred os.Remove(tmp.Name()) runs on this way out
RemoveDeferred(l) == l.deferRemove

\* lines 188, 197, 225: the deferred calls, last registered first:
\* targetFile.Close, os.Remove(tmp.Name()) (its error dropped), tmp.Close
PerformFetchDefers(p) ==
    /\ pc[p] = "pf_exit"
    /\ LET d1 == IF RemoveDeferred(loc[p]) /\ loc[p].tmpName # NoPath
                 THEN [dent EXCEPT ![loc[p].tmpName] = 0] ELSE dent
           l1 == [loc EXCEPT ![p].tmpFd = 0, ![p].targetFd = 0]
       IN /\ dent' = d1
          /\ loc' = l1
          /\ inode' = Reclaim(d1, inode, l1)
    /\ pc' = [pc EXCEPT ![p] = "done"]
    /\ UNCHANGED <<snap, hist, ret, plan>>

\* the caller takes the result
Return(p) ==
    /\ pc[p] = "done"
    /\ pc' = [pc EXCEPT ![p] = "idle"]
    /\ hist' = IF loc[p].call = "PerformFetch" THEN [hist EXCEPT !.purged = FALSE] ELSE hist
    /\ loc' = [loc EXCEPT ![p] = NoLoc]
    /\ snap' = [snap EXCEPT ![p] = NoSnap]
    /\ UNCHANGED <<dent, inode, ret, plan>>

\* os.RemoveAll: the entry and everything below it; nothing to do when absent
RemoveAll(d, path) ==
    [n \in Paths |-> IF n = path \/ (path = DestPath /\ n = ChildPath) THEN 0 ELSE d[n]]

\* a purge that takes any set flag, true or false, as a request
Purges_AnySet(n) == ~IsNil(n.Overwrite)

\* whether DeletePathOnOverwrite purges (lines 331-333)
Purges(n) == ~IsNil(n.Overwrite) /\ Deref(n.Overwrite)

\* lines 330-335
DeletePathOnOverwrite(p, n) ==
    /\ pc[p] = "idle"
    /\ snap' = [snap EXCEPT ![p] = [dent |-> dent, inode |-> inode]]
    /\ loc' = [loc EXCEPT ![p] = [NoLoc EXCEPT !.call = "DeletePathOnOverwrite", !.node = n,
                                               !.path = n.Path]]
    /\ LET d1 == IF Purges(n) THEN RemoveAll(dent, n.Path) ELSE dent
       IN /\ dent' = d1
          /\ inode' = Reclaim(d1, inode, loc)
    /\ hist' = [hist EXCEPT !.purged = Purges(n)]
    /\ pc' = [pc EXCEPT ![p] = "done"]
    /\ UNCHANGED <<ret, plan>>

\* ------------------------------------------------------ initial states
P0 == <<0>>
InitKinds == {"nodir", "absent", "reg", "dir", "symlink", "dev"}
InitDent(k) ==
    [n \in Paths |->
        IF k = "nodir" THEN 0
        ELSE IF n = DirPath THEN 1
        ELSE IF n = OtherPath THEN 2
        ELSE IF n = DestPath /\ k # "absent" THEN 3
        ELSE IF n = ChildPath /\ k = "dir" THEN 4
        ELSE 0]
InitInode(k) ==
    [i \in Inos |->
        IF k = "nodir" THEN FreeInode
        ELSE IF i = 1 THEN NewInode("dir", DefaultDirectoryPermissions)
        ELSE IF i = 2 THEN [NewInode("reg", DefaultFilePermissions) EXCEPT !.data = <<9>>]
        ELSE IF i = 3 /\ k = "reg"
             THEN [NewInode("reg", DefaultFilePermissions) EXCEPT !.data = P0]
        ELSE IF i = 3 /\ k = "dir" THEN NewInode("dir", DefaultDirectoryPermissions)
        ELSE IF i = 3 /\ k = "symlink"
             THEN [NewInode("symlink", DefaultFilePermissions) EXCEPT !.target = OtherPath]
        ELSE IF i = 3 /\ k = "dev" THEN NewInode("dev", DefaultFilePermissions)
        ELSE IF i = 4 /\ k = "dir" THEN NewInode("reg", DefaultFilePermissions)
        ELSE FreeInode]

InitCommon ==
    /\ loc = [p \in Procs |-> NoLoc]
    /\ snap = [p \in Procs |-> NoSnap]
    /\ hist = [purged |-> FALSE, lastRename |-> 0]
    /\ ret = NoRet
    /\ plan = NoPlan

Init ==
    /\ \E k \in InitKinds : dent = InitDent(k) /\ inode = InitInode(k)
    /\ pc = [p \in Procs |-> IF p = 1 THEN "idle" ELSE "off"]
    /\ InitCommon

PurgeNodes == {MkNode(DestPath, NoOwner, NoOwner, o) : o \in {Nil, Ptr(FALSE), Ptr(TRUE)}}

Next ==
    \/ \E f \in FetchOps, fail \in BOOLEAN : PerformFetch(1, f, fail)
    \/ \E fail \in BOOLEAN : TempFile(1, fail)
    \/ \E fail \in BOOLEAN : TmpChmod(1, fail)
    \/ FetcherWrite(1)
    \/ \E fail \in BOOLEAN : FetchReturn(1, fail)
    \/ \E fail \in BOOLEAN : AppendLstat(1, fail)
    \/ \E fail \in BOOLEAN : AppendOpen(1, fail)
    \/ \E fail \in BOOLEAN : AppendSeek(1, fail)
    \/ CopyWrite(1)
    \/ \E fail \in BOOLEAN : CopyReturn(1, fail)
    \/ \E fail \in BOOLEAN : Rename(1, fail)
    \/ PerformFetchDefers(1)
    \/ \E n \in PurgeNodes : DeletePathOnOverwrite(1, n)
    \/ Return(1)

Spec == Init /\ [][Next]_vars

\* ---------------------------------------------------------- ownership
\* the account databases behind Util.userLookup and Util.groupLookup: the id
\* is a string, as in os/user.User.Uid and os/user.Group.Gid
UserDB(name) ==
    CASE name = "alice" -> [err |-> "nil", Uid |-> <<"1">>]
      [] name = "bob" -> [err |-> "nil", Uid |-> <<"0", "2">>]
      [] name = "weird" -> [err |-> "nil", Uid |-> <<"x">>]
      [] OTHER -> [err |-> "ErrUnknownUser", Uid |-> <<>>]
GroupDB(name) ==
    CASE name = "staff" -> [err |-> "nil", Gid |-> <<"2">>]
      [] name = "wheel" -> [err |-> "nil", Gid |-> <<"0", "x", "1">>]
      [] OTHER -> [err |-> "ErrUnknownGroup", Gid |-> <<>>]

DigitVal(c) ==
    CASE c = "0" -> 0 [] c = "1" -> 1 [] c = "2" -> 2 [] c = "3" -> 3 [] c = "7" -> 7
      [] c = "8" -> 8 [] c = "9" -> 9 [] OTHER -> -1

\* the digits of s read in the base, or -1 when one of them is no digit of it
RECURSIVE ParseDigits(_, _, _)
ParseDigits(s, base, acc) ==
    IF s = <<>> THEN acc
    ELSE IF DigitVal(s[1]) < 0 \/ DigitVal(s[1]) >= base THEN -1
    ELSE ParseDigits(Tail(s), base, acc * base + DigitVal(s[1]))

\* strconv.ParseInt(s, 0, 0): the base is taken from the prefix, 0x for 16 and a
\* leading 0 for 8, and is 10 otherwise
ParseInt(s) ==
    LET hex == Len(s) >= 2 /\ s[1] = "0" /\ s[2] = "x"
        oct == ~hex /\ Len(s) >= 2 /\ s[1] = "0"
        digits == IF hex THEN SubSeq(s, 3, Len(s)) ELSE IF oct THEN Tail(s) ELSE s
        v == IF digits = <<>> THEN -1
             ELSE ParseDigits(digits, IF hex THEN 16 ELSE IF oct THEN 8 ELSE 10, 0)
    IN IF v < 0 THEN [err |-> "ErrSyntax", val |-> 0] ELSE [err |-> "nil", val |-> v]

\* lines 306-316
getUserID(name) ==
    LET usr == UserDB(name)
    IN IF usr.err # "nil" THEN [err |-> "ErrNoSuchUser", id |-> 0]
       ELSE IF ParseInt(usr.Uid).err # "nil" THEN [err |-> "ErrParseUid", id |-> 0]
       ELSE [err |-> "nil", id |-> ParseInt(usr.Uid).val]

\* lines 318-328
getGroupID(name) ==
    LET g == GroupDB(name)
    IN IF g.err # "nil" THEN [err |-> "ErrNoSuchGroup", id |-> 0]
       ELSE IF ParseInt(g.Gid).err # "nil" THEN [err |-> "ErrParseGid", id |-> 0]
       ELSE [err |-> "nil", id |-> ParseInt(g.Gid).val]

HasName(o) == ~IsNil(o.Name) /\ Deref(o.Name) # ""

\* a resolver that asks the account database first and falls back on the id
ResolveNodeUidAndGid_NameFirst(n, defaultUid, defaultGid) ==
    LET u == IF HasName(n.User) THEN getUserID(Deref(n.User.Name))
             ELSE IF ~IsNil(n.User.ID) THEN [err |-> "nil", id |-> Deref(n.User.ID)]
             ELSE [err |-> "nil", id |-> defaultUid]
        g == IF HasName(n.Group) THEN getGroupID(Deref(n.Group.Name))
             ELSE IF ~IsNil(n.Group.ID) THEN [err |-> "nil", id |-> Deref(n.Group.ID)]
             ELSE [err |-> "nil", id |-> defaultGid]
    IN IF u.err # "nil"
       THEN [uid |-> 0, gid |-> 0, err |-> u.err, looked |-> {"user"}]
       ELSE IF g.err # "nil"
       THEN [uid |-> 0, gid |-> 0, err |-> g.err,
             looked |-> {"group"} \cup (IF HasName(n.User) THEN {"user"} ELSE {})]
       ELSE [uid |-> u.id, gid |-> g.id, err |-> "nil",
             looked |-> (IF HasName(n.User) THEN {"user"} ELSE {})
                        \cup (IF HasName(n.Group) THEN {"group"} ELSE {})]

\* lines 282-304; looked: the databases the call consulted
ResolveNodeUidAndGid(n, defaultUid, defaultGid) ==
    LET ulook == IsNil(n.User.ID) /\ HasName(n.User)
        glook == IsNil(n.Group.ID) /\ HasName(n.Group)
        u == IF ~IsNil(n.User.ID) THEN [err |-> "nil", id |-> Deref(n.User.ID)]
             ELSE IF ulook THEN getUserID(Deref(n.User.Name))
             ELSE [err |-> "nil", id |-> defaultUid]
        g == IF ~IsNil(n.Group.ID) THEN [err |-> "nil", id |-> Deref(n.Group.ID)]
             ELSE IF glook THEN getGroupID(Deref(n.Group.Name))
             ELSE [err |-> "nil", id |-> defaultGid]
    IN IF u.err # "nil"
       THEN [uid |-> 0, gid |-> 0, err |-> u.err, looked |-> {"user"}]
       ELSE IF g.err # "nil"
       THEN [uid |-> 0, gid |-> 0, err |-> g.err,
             looked |-> {"group"} \cup (IF ulook THEN {"user"} ELSE {})]
       ELSE [uid |-> u.id, gid |-> g.id, err |-> "nil",
             looked |-> (IF ulook THEN {"user"} ELSE {}) \cup (IF glook THEN {"group"} ELSE {})]

\* lines 269-275: os.Stat, which follows symbolic links; zeroes on any error
getFileOwnerAndMode(d, ino, path) ==
    LET t == Follow(d, ino, path)
    IN IF ~Exists(d, t) THEN [uid |-> 0, gid |-> 0, mode |-> 0]
       ELSE [uid |-> ino[d[t]].uid, gid |-> ino[d[t]].gid, mode |-> ino[d[t]].mode]

\* the owner of what a path leads to, for an observer that follows links
StatOf(d, ino, path) ==
    LET t == Follow(d, ino, path)
    IN IF ~Exists(d, t) THEN NoStat
       ELSE [exists |-> TRUE, uid |-> ino[d[t]].uid, gid |-> ino[d[t]].gid]
\* the owner of the entry itself
LstatOf(d, ino, path) ==
    IF ~Exists(d, path) THEN NoStat
    ELSE [exists |-> TRUE, uid |-> ino[d[path]].uid, gid |-> ino[d[path]].gid]

\* lines 158-172
SetPermissions(f) ==
    /\ pc[1] = "idle"
    /\ f.Node = ret.node
    /\ LET t == Follow(dent, inode, f.Node.Path)
           chmodErr == IF ~IsNil(f.Mode) /\ ~Exists(dent, t) THEN "ENOENT" ELSE "nil"
           ino1 == IF ~IsNil(f.Mode) /\ Exists(dent, t)
                   THEN [inode EXCEPT ![dent[t]].mode = Deref(f.Mode)] ELSE inode
           def == getFileOwnerAndMode(dent, ino1, f.Node.Path)
           r == ResolveNodeUidAndGid(f.Node, def.uid, def.gid)
           chownErr == IF ~Exists(dent, t) THEN "ENOENT" ELSE "nil"
           rec == [call |-> "SetPermissions", node |-> f.Node, hard |-> FALSE,
                   before |-> StatOf(dent, inode, f.Node.Path), entry |-> 0,
                   resolved |-> FALSE, du |-> 0, dg |-> 0, res |-> NoRes, err |-> "nil"]
       IN IF chmodErr # "nil"
          THEN /\ ret' = [rec EXCEPT !.err = chmodErr]
               /\ UNCHANGED inode
          ELSE IF r.err # "nil" \/ chownErr # "nil"
          THEN /\ ret' = [rec EXCEPT !.resolved = TRUE, !.du = def.uid, !.dg = def.gid,
                                     !.res = r,
                                     !.err = IF r.err # "nil" THEN r.err ELSE chownErr]
               /\ inode' = ino1
          ELSE /\ ret' = [rec EXCEPT !.resolved = TRUE, !.du = def.uid, !.dg = def.gid,
                                     !.res = r]
               /\ inode' = [ino1 EXCEPT ![dent[t]].uid = r.uid, ![dent[t]].gid = r.gid]
    /\ UNCHANGED <<dent, pc, loc, snap, hist, plan>>

\* Util.JoinPath: the target under the destination root
JoinPath(target) == [err |-> "nil", path |-> <<target, 0>>]

\* the error of os.Link(target, path) on the filesystem as it is
LinkErr(d, ino, target, path) ==
    IF ~Exists(d, target) THEN "ENOENT"
    ELSE IF Exists(d, path) THEN "EEXIST"
    ELSE IF TypeOf(d, ino, target) = "dir" THEN "EPERM"
    ELSE "nil"

\* lines 127-156
WriteLink(s) ==
    /\ pc[1] = "idle"
    /\ s.Node = ret.node
    /\ LET path == s.Node.Path
           fs == MkdirForFile(dent, inode, loc, path)
           hard == ~IsNil(s.Hard) /\ Deref(s.Hard)
           rec == [call |-> "WriteLink", node |-> s.Node, hard |-> hard,
                   before |-> LstatOf(dent, inode, path), entry |-> 0,
                   resolved |-> FALSE, du |-> 0, dg |-> 0, res |-> NoRes, err |-> "nil"]
       IN IF hard
          THEN LET targetPath == JoinPath(s.Target).path
                   err == LinkErr(fs.dent, fs.inode, targetPath, path)
               IN /\ dent' = IF err = "nil" THEN [fs.dent EXCEPT ![path] = fs.dent[targetPath]]
                             ELSE fs.dent
                  /\ inode' = fs.inode
                  /\ ret' = [rec EXCEPT !.err = err,
                                        !.entry = IF err = "nil" THEN fs.dent[targetPath] ELSE 0]
          ELSE IF Exists(fs.dent, path)
          THEN /\ dent' = fs.dent
               /\ inode' = fs.inode
               /\ ret' = [rec EXCEPT !.err = "EEXIST"]
          ELSE LET i == AllocIno(fs.dent, loc)
                   d1 == [fs.dent EXCEPT ![path] = i]
                   ino1 == [fs.inode EXCEPT
                               ![i] = [NewInode("symlink", 511) EXCEPT !.target = <<s.Target, 0>>]]
                   r == ResolveNodeUidAndGid(s.Node, 0, 0)
               IN /\ dent' = d1
                  /\ inode' = IF r.err # "nil" THEN ino1
                              ELSE [ino1 EXCEPT ![i].uid = r.uid, ![i].gid = r.gid]
                  /\ ret' = [rec EXCEPT !.resolved = TRUE, !.res = r, !.err = r.err,
                                        !.entry = i]
    /\ UNCHANGED <<pc, loc, snap, hist, plan>>

\* the owners a node may declare
UserOwners ==
    {[ID |-> i, Name |-> n] : i \in {Nil, Ptr(2)},
                              n \in {Nil, Ptr(""), Ptr("alice"), Ptr("bob"), Ptr("weird"), Ptr("ghost")}}
GroupOwners ==
    {[ID |-> i, Name |-> n] : i \in {Nil, Ptr(1)},
                              n \in {Nil, Ptr(""), Ptr("staff"), Ptr("wheel"), Ptr("ghost")}}
OwnerNodes == {MkNode(DestPath, u, g, Nil) : u \in UserOwners, g \in GroupOwners}
Files == {[Node |-> n, Mode |-> m] : n \in OwnerNodes, m \in {Nil, Ptr(448)}}
Links == {[Node |-> n, Target |-> t, Hard |-> h] :
            n \in OwnerNodes, t \in {"other", "missing"}, h \in {Nil, Ptr(FALSE), Ptr(TRUE)}}

\* the orchestrator materializes one declared node: a filesystem whose files
\* have owners other than the caller, and the node the calls are made for
Chown(ino, i, u, g) == IF ino[i].type = "free" THEN ino ELSE [ino EXCEPT ![i].uid = u, ![i].gid = g]
InitOwner ==
    /\ \E k \in {"nodir", "absent", "reg", "dir", "symlink"}, o \in {<<0, 0>>, <<3, 4>>} :
          /\ dent = InitDent(k)
          /\ inode = Chown(Chown(InitInode(k), 3, o[1], o[2]), 2, 5, 6)
    /\ pc = [p \in Procs |-> IF p = 1 THEN "idle" ELSE "off"]
    /\ loc = [p \in Procs |-> NoLoc]
    /\ snap = [p \in Procs |-> NoSnap]
    /\ hist = [purged |-> FALSE, lastRename |-> 0]
    /\ \E n \in OwnerNodes : ret = [NoRet EXCEPT !.node = n]
    /\ plan = NoPlan

NextOwner ==
    \/ \E f \in Files : SetPermissions(f)
    \/ \E s \in Links : WriteLink(s)

SpecOwner == InitOwner /\ [][NextOwner]_vars

\* two callers, each running one non-append PerformFetch on the same destination
InitConc ==
    /\ \E k \in {"nodir", "absent", "reg"} : dent = InitDent(k) /\ inode = InitInode(k)
    /\ pc = [p \in Procs |-> "idle"]
    /\ InitCommon

\* replacing operations, unverified or verified against the digest of /a
ConcOps == {g \in FetchOps : ~g.Append /\ g.FetchOptions.ExpectedSum \in {<<>>, <<7>>}}

NextConc ==
    \E p \in Procs :
        \/ \E f \in ConcOps, fail \in BOOLEAN : PerformFetch(p, f, fail)
        \/ \E fail \in BOOLEAN : TempFile(p, fail)
        \/ \E fail \in BOOLEAN : TmpChmod(p, fail)
        \/ FetcherWrite(p)
        \/ \E fail \in BOOLEAN : FetchReturn(p, fail)
        \/ \E fail \in BOOLEAN : Rename(p, fail)
        \/ PerformFetchDefers(p)

SpecConc == InitConc /\ [][NextConc]_vars

\* ------------------------------------------------------ fetch plans
\* the content descriptions a declared file is drawn from, good and bad
PrepContents ==
    {MkContents(Ptr(SrcA), Nil, Nil),
     MkContents(Ptr(SrcB), Ptr("gzip"), Ptr(VerB)),
     MkContents(Ptr(SrcA), Nil, Ptr(VerA)),
     MkContents(Ptr(SrcBad), Nil, Nil),
     MkContents(Ptr(SrcA), Nil, Ptr(VerUnknownAlg)),
     MkContents(Ptr(SrcB), Nil, Ptr(VerBadHex)),
     MkContents(Ptr(SrcA), Nil, Ptr(VerOddHex)),
     MkContents(Ptr(SrcB), Nil, Ptr(VerNoDash))}
PrepNodes ==
    {DestNode, MkNode(OtherPath, [ID |-> Ptr(2), Name |-> Nil], NoOwner, Ptr(TRUE))}
PrepFiles ==
    {[Node |-> n, Contents |-> c, Append |-> a] :
        n \in PrepNodes,
        c \in PrepContents \cup {MkContents(Nil, Nil, Nil)},
        a \in UNION {[1..k -> PrepContents] : k \in 0..MaxAppend}}

InitPrepare ==
    /\ dent = InitDent("nodir") /\ inode = InitInode("nodir")
    /\ pc = [p \in Procs |-> "off"]
    /\ loc = [p \in Procs |-> NoLoc]
    /\ snap = [p \in Procs |-> NoSnap]
    /\ hist = [purged |-> FALSE, lastRename |-> 0]
    /\ ret = NoRet
    /\ \E f \in PrepFiles : plan = [state |-> "declared", file |-> f, ops |-> <<>>, err |-> "nil"]

\* the call of PrepareFetches on the declared file
BuildPlan ==
    /\ plan.state = "declared"
    /\ plan' = [plan EXCEPT !.state = "built",
                            !.ops = PrepareFetches(plan.file).ops,
                            !.err = PrepareFetches(plan.file).err]
    /\ UNCHANGED <<dent, inode, pc, loc, snap, hist, ret>>

NextPrepare == BuildPlan

SpecPrepare == InitPrepare /\ [][NextPrepare]_vars

\* ======================================================== properties
\* the destination as a caller can observe it: which inode, its type, bytes,
\* mode and owner, and what lies below it
DestState(d, ino) ==
    [ino |-> d[DestPath],
     node |-> IF d[DestPath] = 0 THEN FreeInode ELSE ino[d[DestPath]],
     child |-> d[ChildPath]]
DestUnchanged(p) == DestState(dent, inode) = DestState(snap[p].dent, snap[p].inode)
PriorType(p) == TypeOf(snap[p].dent, snap[p].inode, DestPath)
PriorData(p) == DataOf(snap[p].dent, snap[p].inode, DestPath)
Fetching(p) == loc[p].call = "PerformFetch"
FetcherFailed(p) == loc[p].fetchErr \in {"ErrFetch", "ErrHashMismatch"}
HoldsFetched(p) ==
    /\ TypeOf(dent, inode, DestPath) = "reg"
    /\ DataOf(dent, inode, DestPath) = Served(loc[p].op.Url)

\* C1: a non-append PerformFetch on a destination that is a regular file with
\* content P shows, in every state of the call (any of them may be the last one
\* before an interruption, and every failure before the rename ends in one),
\* the destination exactly as it was before the rename, and holding exactly the
\* complete fetched content after it.
C1_AtomicInstall ==
    (Fetching(1) /\ ~loc[1].op.Append /\ PriorType(1) = "reg")
        => IF loc[1].renamed THEN HoldsFetched(1) ELSE DestUnchanged(1)

C1_Witness ==
    /\ Fetching(1) /\ ~loc[1].op.Append /\ PriorType(1) = "reg"
    /\ loc[1].renamed
    /\ DataOf(dent, inode, DestPath) # PriorData(1)

\* C2 (as amended): when the Fetcher fails, digest mismatch included,
\* PerformFetch returns that error and the destination is as it was, append or
\* not; when the Fetcher succeeds on a non-append operation and PerformFetch
\* returns no error, the destination holds exactly the fetched bytes.
C2_FetcherOutcome ==
    Fetching(1) =>
        /\ FetcherFailed(1) => DestUnchanged(1)
        /\ (FetcherFailed(1) /\ pc[1] = "done") => loc[1].err = loc[1].fetchErr
        /\ (pc[1] = "done" /\ loc[1].fetchErr = "nil" /\ ~loc[1].op.Append /\ loc[1].err = "nil")
              => HoldsFetched(1)

C2_Witness ==
    /\ Fetching(1) /\ pc[1] = "done"
    /\ loc[1].fetchErr = "ErrHashMismatch"
    /\ PriorType(1) = "reg" /\ PriorData(1) = P0

\* C2 as stated: the Fetcher succeeding on a non-append operation is enough for
\* the destination to hold the fetched bytes. Read in the claim's favour: no
\* system call of the run failed for a reason outside the filesystem's state.
C2_AsStated ==
    Fetching(1) =>
        /\ FetcherFailed(1) => DestUnchanged(1)
        /\ (FetcherFailed(1) /\ pc[1] = "done") => loc[1].err = loc[1].fetchErr
        /\ (pc[1] = "done" /\ loc[1].fetchErr = "nil" /\ ~loc[1].op.Append /\ loc[1].err # "EIO")
              => HoldsFetched(1)

\* C4: an append whose Fetcher succeeded with bytes F, and whose system calls
\* did not fail, ends by the destination's prior state: absent, it is created
\* with mode 0644 and holds F; a regular file with content C, it is the same
\* file holding C followed by F; anything else, the call fails and the
\* destination is as it was. The temp file is never installed as the destination.
C4_AppendByPriorState ==
    (Fetching(1) /\ loc[1].op.Append) =>
        /\ ~loc[1].renamed
        /\ loc[1].tmpFd # 0 => dent[DestPath] # loc[1].tmpFd
        /\ (pc[1] = "done" /\ loc[1].fetchErr = "nil" /\ loc[1].err # "EIO") =>
              CASE PriorType(1) = "absent" ->
                      /\ loc[1].err = "nil"
                      /\ TypeOf(dent, inode, DestPath) = "reg"
                      /\ inode[dent[DestPath]].mode = DefaultFilePermissions
                      /\ DataOf(dent, inode, DestPath) = Served(loc[1].op.Url)
                [] PriorType(1) = "reg" ->
                      /\ loc[1].err = "nil"
                      /\ dent[DestPath] = snap[1].dent[DestPath]
                      /\ inode[dent[DestPath]] =
                            [snap[1].inode[dent[DestPath]] EXCEPT
                                !.data = PriorData(1) \o Served(loc[1].op.Url)]
                [] OTHER ->
                      /\ loc[1].err = "ErrNotRegular"
                      /\ DestUnchanged(1)

C4_Witness ==
    /\ Fetching(1) /\ loc[1].op.Append /\ pc[1] = "done"
    /\ PriorType(1) = "reg" /\ loc[1].err = "nil"
    /\ DataOf(dent, inode, DestPath) = P0 \o Served(loc[1].op.Url)

\* C5 as stated: once PerformFetch has created its temp file, no file is left
\* under the temp file's name when the call has returned, whichever way it returned.
C5_TempRemovedOnEveryExit ==
    (Fetching(1) /\ pc[1] = "done" /\ loc[1].tmpName # NoPath) => dent[loc[1].tmpName] = 0

\* C6 as stated: in every state of an append onto a regular file with content
\* C, the destination holds C, or C followed by the whole fragment F.
C6_NoPartialAppend ==
    (Fetching(1) /\ loc[1].op.Append /\ PriorType(1) = "reg") =>
        DataOf(dent, inode, DestPath) \in {PriorData(1), PriorData(1) \o Served(loc[1].op.Url)}

\* C9: DeletePathOnOverwrite with the flag true leaves nothing at the path or
\* below it, and a non-append PerformFetch that follows (its Fetcher and system
\* calls not failing) installs a regular file with the fetched bytes there;
\* with the flag absent or false it changes nothing and returns no error.
C9_OverwritePurge ==
    /\ (pc[1] = "done" /\ loc[1].call = "DeletePathOnOverwrite") =>
          /\ loc[1].err = "nil"
          /\ IF ~IsNil(loc[1].node.Overwrite) /\ Deref(loc[1].node.Overwrite)
             THEN dent[DestPath] = 0 /\ dent[ChildPath] = 0
             ELSE dent = snap[1].dent /\ inode = snap[1].inode
    /\ (hist.purged /\ Fetching(1)) => PriorType(1) = "absent"
    /\ (hist.purged /\ Fetching(1) /\ ~loc[1].op.Append /\ pc[1] = "done"
          /\ loc[1].fetchErr = "nil" /\ loc[1].err # "EIO")
          => loc[1].err = "nil" /\ HoldsFetched(1)

C9_Witness ==
    /\ pc[1] = "done" /\ loc[1].call = "DeletePathOnOverwrite"
    /\ PriorType(1) = "dir" /\ snap[1].dent[ChildPath] # 0
    /\ dent[DestPath] = 0 /\ dent[ChildPath] = 0

\* whether s is the first bytes of t
IsPrefix(s, t) == Len(s) <= Len(t) /\ s = SubSeq(t, 1, Len(s))

\* C10: two non-append PerformFetch calls on one destination, interleaved in
\* any way: the temp file each has open is its own, holding only bytes of its
\* own content; until a rename the destination is as either caller found it,
\* and from then on it holds exactly the complete content of the caller whose
\* rename came last, in particular once both have returned without error.
C10_LastRenameWins ==
    /\ \A p \in Procs : loc[p].tmpFd # 0 =>
          /\ \A q \in Procs \ {p} : loc[q].tmpFd # loc[p].tmpFd
          /\ IsPrefix(inode[loc[p].tmpFd].data, Served(loc[p].op.Url))
    /\ IF hist.lastRename = 0
       THEN \A p \in Procs : Fetching(p) => DestUnchanged(p)
       ELSE HoldsFetched(hist.lastRename)
    /\ (\A p \in Procs : pc[p] = "done" /\ loc[p].err = "nil")
          => loc[hist.lastRename].renamed /\ HoldsFetched(hist.lastRename)

C10_Witness ==
    /\ \A p \in Procs : pc[p] = "done" /\ loc[p].err = "nil"
    /\ hist.lastRename = 1
    /\ PriorType(2) = "reg" /\ PriorData(2) = P0
    /\ Served(loc[1].op.Url) # Served(loc[2].op.Url)
    /\ DataOf(dent, inode, DestPath) = Served(loc[1].op.Url)

\* what operation op must carry for the content description c
Describes(op, c) ==
    /\ op.Url.Path = (IF Deref(c.Source) = SrcA THEN "/a" ELSE "/b")
    /\ op.FetchOptions.Compression = (IF IsNil(c.Compression) THEN "" ELSE Deref(c.Compression))
    /\ IsNil(op.Hash) = IsNil(c.Verification.Hash)
    /\ op.FetchOptions.Hash = op.Hash
    /\ op.FetchOptions.ExpectedSum =
          (IF IsNil(c.Verification.Hash) THEN <<>>
           ELSE IF Deref(c.Verification.Hash) = VerA THEN <<7>> ELSE <<19>>)

\* C3: the sequence PrepareFetches builds is the primary source's operation (if
\* the file has one) with Append false, then one operation per append fragment
\* in declared order with Append true, every one carrying the file's Node;
\* without a primary source it holds the append operations only.
C3_PlanInDeclarationOrder ==
    (plan.state = "built" /\ plan.err = "nil") =>
        LET f == plan.file
            ops == plan.ops
            k == IF IsNil(f.Contents.Source) THEN 0 ELSE 1
        IN /\ Len(ops) = k + Len(f.Append)
           /\ k = 1 => ~ops[1].Append /\ Describes(ops[1], f.Contents)
           /\ \A i \in 1..Len(f.Append) :
                 ops[k + i].Append /\ Describes(ops[k + i], f.Append[i])
           /\ \A i \in 1..Len(ops) : ops[i].Node = f.Node /\ ops[i].Node.Path = f.Node.Path

C3_Witness ==
    /\ plan.state = "built" /\ plan.err = "nil"
    /\ ~IsNil(plan.file.Contents.Source)
    /\ Len(plan.file.Append) = 2
    /\ plan.file.Append[1] # plan.file.Append[2]
    /\ plan.file.Append[1] # plan.file.Contents
    /\ plan.file.Node.Path = OtherPath
    /\ Len(plan.ops) = 3

\* the numeric ids behind the account names: alice is 1, bob is 2, staff is 2,
\* wheel is 1; -1 for a name that resolves to no number
KnownId(axis, name) ==
    IF axis = "user"
    THEN (CASE name = "alice" -> 1 [] name = "bob" -> 2 [] OTHER -> -1)
    ELSE (CASE name = "staff" -> 2 [] name = "wheel" -> 1 [] OTHER -> -1)

\* the precedence on one axis: the id, else the looked-up name, else the default
AxisPrecedence(axis, o, id, default, r) ==
    IF ~IsNil(o.ID)
    THEN axis \notin r.looked /\ (r.err = "nil" => id = Deref(o.ID))
    ELSE IF HasName(o)
    THEN /\ (KnownId(axis, Deref(o.Name)) < 0 /\ axis \in r.looked) => r.err # "nil"
         /\ r.err = "nil" => axis \in r.looked /\ id = KnownId(axis, Deref(o.Name))
    ELSE axis \notin r.looked /\ (r.err = "nil" => id = default)

Unresolvable(axis, o) == IsNil(o.ID) /\ HasName(o) /\ KnownId(axis, Deref(o.Name)) < 0
SetsNoOwner(n) ==
    IsNil(n.User.ID) /\ ~HasName(n.User) /\ IsNil(n.Group.ID) /\ ~HasName(n.Group)

\* C7: on each axis ResolveNodeUidAndGid returns the Node's numeric id when it
\* has one, without a lookup; else the id its non-empty name looks up to, or an
\* error when the name does not resolve; else the caller's default. So
\* SetPermissions on an existing file whose Node sets no owner leaves the
\* file's owner and group as they were.
C7_OwnershipPrecedence ==
    /\ ret.resolved =>
          /\ AxisPrecedence("user", ret.node.User, ret.res.uid, ret.du, ret.res)
          /\ AxisPrecedence("group", ret.node.Group, ret.res.gid, ret.dg, ret.res)
          /\ ret.res.err # "nil" <=>
                \/ Unresolvable("user", ret.node.User)
                \/ Unresolvable("group", ret.node.Group)
    /\ (ret.call = "SetPermissions" /\ ret.before.exists /\ SetsNoOwner(ret.node)) =>
          /\ ret.err = "nil"
          /\ StatOf(dent, inode, DestPath) = ret.before

C7_Witness ==
    /\ ret.call = "SetPermissions" /\ ret.resolved /\ ret.err = "nil"
    /\ ret.node.User = [ID |-> Ptr(2), Name |-> Ptr("alice")]
    /\ ret.node.Group = [ID |-> Nil, Name |-> Ptr("wheel")]
    /\ ret.before = [exists |-> TRUE, uid |-> 3, gid |-> 4]
    /\ StatOf(dent, inode, DestPath) = [exists |-> TRUE, uid |-> 2, gid |-> 1]

\* C8 as stated: for a hard link as for a symbolic one, a WriteLink that
\* succeeds leaves the link owned by the (uid, gid) its Node resolves to with
\* default (0, 0), and a Node that does not resolve makes WriteLink fail.
C8_LinkOwnership ==
    ret.call = "WriteLink" =>
        LET r == ResolveNodeUidAndGid(ret.node, 0, 0)
        IN /\ ret.err = "nil" =>
                 /\ LstatOf(dent, inode, DestPath).uid = r.uid
                 /\ LstatOf(dent, inode, DestPath).gid = r.gid
           /\ (ret.entry # 0 /\ r.err # "nil") => ret.err # "nil"
====
